---- MODULE Spec2Model ----
(***************************************************************************)
(* rcgen (src/src/lib.rs): building, signing and serializing X.509         *)
(* certificates and PKCS#10 requests.                                      *)
(*                                                                         *)
(* The library is a set of constructors and serializers called by a        *)
(* client.  The state is what the client holds: the CertificateParams it   *)
(* is filling in, the CustomExtension it is building, the Certificates it  *)
(* has constructed, the draws taken from the system random source, and the *)
(* last library call with its arguments and its result.                    *)
(*                                                                         *)
(* Encoded bytes are represented by the tree of DER writer calls that      *)
(* produced them; Option and Result values are sequences of length 0 or 1  *)
(* (<<>> is None / a panic, <<v>> is Some(v) / a returned value).          *)
(***************************************************************************)
EXTENDS Integers, Sequences, FiniteSets, TLC

VARIABLES params, ext, certs, rng, call

vars == <<params, ext, certs, rng, call>>

None == <<>>
Some(v) == <<v>>
IsSome(o) == Len(o) = 1
Unwrap(o) == o[1]
Panic == <<>>
Returned(v) == <<v>>

(***************************************************************************)
(* Bounds of the exploration.                                              *)
(***************************************************************************)
\* key pairs the client generates (draws from the random source)
MaxGen == 2
\* entries of subject_alt_names
MaxSans == 2
\* entries of custom_extensions
MaxExts == 2
\* certificates the client constructs: a leaf and a ca suffice for every
\* operation of the library (none takes more than two certificates)
CertSlots == {1, 2}
\* outcomes of the random nonce of one ECDSA signature
Nonces == {0, 1}

(***************************************************************************)
(* Object identifiers (lib.rs 96-126).                                     *)
(***************************************************************************)
OID_PKCS_9_AT_EXTENSION_REQUEST == <<1, 2, 840, 113549, 1, 9, 14>>
OID_COUNTRY_NAME == <<2, 5, 4, 6>>
OID_ORG_NAME == <<2, 5, 4, 10>>
OID_COMMON_NAME == <<2, 5, 4, 3>>
OID_EC_PUBLIC_KEY == <<1, 2, 840, 10045, 2, 1>>
OID_EC_SECP_256_R1 == <<1, 2, 840, 10045, 3, 1, 7>>
OID_EC_SECP_384_R1 == <<1, 3, 132, 0, 34>>
OID_RSA_ENCRYPTION == <<1, 2, 840, 113549, 1, 1, 1>>
OID_SUBJECT_ALT_NAME == <<2, 5, 29, 17>>
OID_BASIC_CONSTRAINTS == <<2, 5, 29, 19>>
OID_SUBJECT_KEY_IDENTIFIER == <<2, 5, 29, 14>>
OID_PE_ACME == <<1, 3, 6, 1, 5, 5, 7, 1, 31>>

(***************************************************************************)
(* The DER writer (yasna), one constructor per writer call.                *)
(***************************************************************************)
RECURSIVE Base256(_)
\* the base-256 digits of n, most significant first
Base256(n) == IF n < 256 THEN <<n>> ELSE Base256(n \div 256) \o <<n % 256>>

\* contents octets of a non-negative INTEGER: big-endian, minimal, with a
\* leading zero octet when the top bit of the first octet would be set
IntContents(n) ==
    LET d == Base256(n) IN IF d[1] >= 128 THEN <<0>> \o d ELSE d

write_sequence(items) == [tag |-> "SEQUENCE", val |-> items]
\* a DER SET has no order of its own: its elements are a set
write_set(elems) == [tag |-> "SET", val |-> elems]
write_oid(components) == [tag |-> "OBJECT IDENTIFIER", val |-> components]
write_u8(n) == [tag |-> "INTEGER", val |-> IntContents(n)]
write_u64(n) == [tag |-> "INTEGER", val |-> IntContents(n)]
write_bool(b) == [tag |-> "BOOLEAN", val |-> b]
write_utf8_string(s) == [tag |-> "UTF8String", val |-> s]
write_bytes(bytes) == [tag |-> "OCTET STRING", val |-> bytes]
write_bitvec(bytes) == [tag |-> "BIT STRING", val |-> bytes]
write_null == [tag |-> "NULL", val |-> <<>>]
write_tagged(n, inner) == [tag |-> "CONTEXT", ctx |-> n, val |-> <<inner>>]
\* an implicit tag replaces the tag of the value it wraps
write_tagged_implicit(n, inner) == [tag |-> "CONTEXT", ctx |-> n, val |-> inner.val]
\* construct_der returns the encoding of what the callback wrote
construct_der(node) == [der |-> node]
\* write_der copies an encoding into the output as it is
write_der(bytes) == bytes.der
\* the serializer writes the seconds (60 for a leap second, which chrono
\* holds as nanosecond >= 10^9) and then a fraction if the rest is not zero
write_generalized_time(gt) ==
    [tag |-> "GeneralizedTime",
     val |-> [ymd |-> gt.datetime.ymd,
              hms |-> gt.datetime.hms,
              leap |-> gt.datetime.nanosecond >= 1000000000,
              fraction |-> gt.datetime.nanosecond % 1000000000]]

(***************************************************************************)
(* The signature algorithms (lib.rs 559-563, 680-758).                     *)
(***************************************************************************)
PKCS_RSA_SHA256 ==
    [oids_sign_alg |-> <<OID_RSA_ENCRYPTION>>,
     sign_alg |-> <<"Rsa">>,
     digest_alg |-> "SHA256",
     oid_components |-> <<1, 2, 840, 113549, 1, 1, 11>>,
     write_null_params |-> TRUE]

PKCS_ECDSA_P256_SHA256 ==
    [oids_sign_alg |-> <<OID_EC_PUBLIC_KEY, OID_EC_SECP_256_R1>>,
     sign_alg |-> <<"EcDsa", "ECDSA_P256_SHA256_ASN1_SIGNING">>,
     digest_alg |-> "SHA256",
     oid_components |-> <<1, 2, 840, 10045, 4, 3, 2>>,
     write_null_params |-> FALSE]

PKCS_ECDSA_P384_SHA384 ==
    [oids_sign_alg |-> <<OID_EC_PUBLIC_KEY, OID_EC_SECP_384_R1>>,
     sign_alg |-> <<"EcDsa", "ECDSA_P384_SHA384_ASN1_SIGNING">>,
     digest_alg |-> "SHA384",
     oid_components |-> <<1, 2, 840, 10045, 4, 3, 3>>,
     write_null_params |-> FALSE]

PKCS_ED25519 ==
    [oids_sign_alg |-> << <<1, 3, 101, 112>> >>,
     sign_alg |-> <<"EdDsa", "ED25519">>,
     digest_alg |-> "SHA512",
     oid_components |-> <<1, 3, 101, 112>>,
     write_null_params |-> FALSE]

Algorithms ==
    {PKCS_RSA_SHA256, PKCS_ECDSA_P256_SHA256, PKCS_ECDSA_P384_SHA384, PKCS_ED25519}

alg_ident_oid(alg) == write_oid(alg.oid_components)

write_alg_ident(alg) ==
    write_sequence(<<alg_ident_oid(alg)>>
                   \o (IF alg.write_null_params THEN <<write_null>> ELSE <<>>))

write_oids_sign_alg(alg) ==
    write_sequence([i \in 1..Len(alg.oids_sign_alg) |-> write_oid(alg.oids_sign_alg[i])]
                   \o (IF alg.write_null_params THEN <<write_null>> ELSE <<>>))

(***************************************************************************)
(* The crypto provider (ring).  A PKCS#8 document names the kind of key it *)
(* holds and the secret material; a parser accepts the documents of its    *)
(* own kind only and binds the key to a signing scheme.                    *)
(***************************************************************************)
Pkcs8Doc(kind, material) == [format |-> "PKCS8", kind |-> kind, material |-> material]
NotPkcs8 == [format |-> "garbage", kind |-> "none", material |-> 0]

CurveOf(signing) ==
    IF signing = "ECDSA_P256_SHA256_ASN1_SIGNING" THEN "P-256" ELSE "P-384"

Ed25519KeyPair_from_pkcs8(input) ==
    IF input.format = "PKCS8" /\ input.kind = "Ed25519"
    THEN Returned([scheme |-> "ED25519", kind |-> "Ed25519", material |-> input.material])
    ELSE Panic

EcdsaKeyPair_from_pkcs8(signing, input) ==
    IF input.format = "PKCS8" /\ input.kind = CurveOf(signing)
    THEN Returned([scheme |-> signing, kind |-> input.kind, material |-> input.material])
    ELSE Panic

RsaKeyPair_from_pkcs8(input) ==
    IF input.format = "PKCS8" /\ input.kind = "RSA"
    THEN Returned([scheme |-> "RSA", kind |-> "RSA", material |-> input.material])
    ELSE Panic

\* generate_pkcs8: a document of the scheme's kind holding fresh material
EcdsaKeyPair_generate_pkcs8(signing, fresh) == Pkcs8Doc(CurveOf(signing), fresh)
Ed25519KeyPair_generate_pkcs8(fresh) == Pkcs8Doc("Ed25519", fresh)

\* the public half of a ring key pair: determined by kind and material
RingPublicKey(kp) == [public |-> kp.kind, of |-> kp.material]

\* a signature names the scheme that made it, the public key it verifies
\* under, the message, and (ECDSA only) the random nonce
RingSign(scheme, kp, msg, nonce) ==
    [scheme |-> scheme, key |-> RingPublicKey(kp), msg |-> msg, nonce |-> nonce]

digest_digest(digest_alg, bytes) == [digest |-> digest_alg, of |-> bytes]

(***************************************************************************)
(* KeyPair (lib.rs 565-678).                                               *)
(***************************************************************************)
EcKp(kp, serialized) == [variant |-> "EcKp", kp |-> kp, serialized |-> serialized]
EdKp(kp, serialized) == [variant |-> "EdKp", kp |-> kp, serialized |-> serialized]
RsaKp(kp, serialized) == [variant |-> "Rsa", kp |-> kp, serialized |-> serialized]

\* KeyPair_from with a fault: the P-384 parser is never tried
KeyPair_from_NoP384(pkcs8) ==
    IF IsSome(Ed25519KeyPair_from_pkcs8(pkcs8))
    THEN Returned(EdKp(Unwrap(Ed25519KeyPair_from_pkcs8(pkcs8)), pkcs8))
    ELSE IF IsSome(EcdsaKeyPair_from_pkcs8("ECDSA_P256_SHA256_ASN1_SIGNING", pkcs8))
    THEN Returned(EcKp(Unwrap(EcdsaKeyPair_from_pkcs8("ECDSA_P256_SHA256_ASN1_SIGNING", pkcs8)), pkcs8))
    ELSE IF IsSome(RsaKeyPair_from_pkcs8(pkcs8))
    THEN Returned(RsaKp(Unwrap(RsaKeyPair_from_pkcs8(pkcs8)), pkcs8))
    ELSE Panic

\* impl From<&[u8]> for KeyPair: the first parser that accepts wins
KeyPair_from(pkcs8) ==
    IF IsSome(Ed25519KeyPair_from_pkcs8(pkcs8))
    THEN Returned(EdKp(Unwrap(Ed25519KeyPair_from_pkcs8(pkcs8)), pkcs8))
    ELSE IF IsSome(EcdsaKeyPair_from_pkcs8("ECDSA_P256_SHA256_ASN1_SIGNING", pkcs8))
    THEN Returned(EcKp(Unwrap(EcdsaKeyPair_from_pkcs8("ECDSA_P256_SHA256_ASN1_SIGNING", pkcs8)), pkcs8))
    ELSE IF IsSome(EcdsaKeyPair_from_pkcs8("ECDSA_P384_SHA384_ASN1_SIGNING", pkcs8))
    THEN Returned(EcKp(Unwrap(EcdsaKeyPair_from_pkcs8("ECDSA_P384_SHA384_ASN1_SIGNING", pkcs8)), pkcs8))
    ELSE IF IsSome(RsaKeyPair_from_pkcs8(pkcs8))
    THEN Returned(RsaKp(Unwrap(RsaKeyPair_from_pkcs8(pkcs8)), pkcs8))
    ELSE Panic

\* KeyPair::generate; fresh is the draw from the system random source
generate(alg, fresh) ==
    IF alg.sign_alg[1] = "EcDsa"
    THEN LET key_pair_doc == EcdsaKeyPair_generate_pkcs8(alg.sign_alg[2], fresh)
         IN  Returned(EcKp(Unwrap(EcdsaKeyPair_from_pkcs8(alg.sign_alg[2], key_pair_doc)),
                           key_pair_doc))
    ELSE IF alg.sign_alg[1] = "EdDsa"
    THEN LET key_pair_doc == Ed25519KeyPair_generate_pkcs8(fresh)
         IN  Returned(EdKp(Unwrap(Ed25519KeyPair_from_pkcs8(key_pair_doc)), key_pair_doc))
    ELSE Panic

public_key(key_pair) == RingPublicKey(key_pair.kp)

\* KeyPair::sign writes the signature as a BIT STRING
sign(key_pair, msg, nonce) ==
    IF key_pair.variant = "EcKp"
    THEN write_bitvec(RingSign(key_pair.kp.scheme, key_pair.kp, msg, nonce))
    ELSE IF key_pair.variant = "EdKp"
    THEN write_bitvec(RingSign("ED25519", key_pair.kp, msg, 0))
    ELSE write_bitvec(RingSign("RSA_PKCS1_SHA256", key_pair.kp, msg, 0))

KeyPair_serialize_der(key_pair) == key_pair.serialized

(***************************************************************************)
(* DnType, DistinguishedName (lib.rs 128-175).  The entries of the hash    *)
(* map are held in its iteration order, which the hash decides.            *)
(***************************************************************************)
DnTypes == {"CountryName", "OrganizationName", "CommonName"}

to_oid(ty) ==
    write_oid(IF ty = "CountryName" THEN OID_COUNTRY_NAME
              ELSE IF ty = "OrganizationName" THEN OID_ORG_NAME
              ELSE OID_COMMON_NAME)

DistinguishedName_new == [entries |-> <<>>]

HasType(dn, ty) == \E i \in 1..Len(dn.entries) : dn.entries[i][1] = ty

InsertAt(seq, pos, e) == SubSeq(seq, 1, pos - 1) \o <<e>> \o SubSeq(seq, pos, Len(seq))

\* push with a fault: a value of a type already held is added beside the old
push_KeepsOld(dn, ty, s, slot) ==
    [entries |-> InsertAt(dn.entries, slot, <<ty, s>>)]

\* HashMap::insert: the value of a key already held is replaced where it is;
\* a new key lands at the place `slot` its hash gives it
push(dn, ty, s, slot) ==
    IF HasType(dn, ty)
    THEN [entries |-> [i \in 1..Len(dn.entries) |->
                          IF dn.entries[i][1] = ty THEN <<ty, s>> ELSE dn.entries[i]]]
    ELSE [entries |-> InsertAt(dn.entries, slot, <<ty, s>>)]

(***************************************************************************)
(* CertificateParams, IsCa, BasicConstraints (lib.rs 177-243, 283-294).    *)
(***************************************************************************)
SelfSignedOnly == <<"SelfSignedOnly">>
Ca(constraint) == <<"Ca", constraint>>
Unconstrained == <<"Unconstrained">>
Constrained(k) == <<"Constrained", k>>

date_time_ymd(year, month, day) ==
    [ymd |-> <<year, month, day>>, hms |-> <<0, 0, 0>>, nanosecond |-> 0]

CertificateParams_default ==
    [alg |-> PKCS_ECDSA_P256_SHA256,
     not_before |-> date_time_ymd(1975, 1, 1),
     not_after |-> date_time_ymd(4096, 1, 1),
     serial_number |-> None,
     subject_alt_names |-> <<>>,
     distinguished_name |->
         push(DistinguishedName_new, "CommonName", "rcgen self signed cert", 1),
     is_ca |-> SelfSignedOnly,
     custom_extensions |-> <<>>,
     key_pair |-> None]

CertificateParams_new(subject_alt_names) ==
    [CertificateParams_default EXCEPT !.subject_alt_names = subject_alt_names]

(***************************************************************************)
(* CustomExtension (lib.rs 245-281).                                       *)
(***************************************************************************)
\* new_acme_identifier with a fault: the length of the digest is not checked
new_acme_identifier_NoAssert(sha_digest) ==
    Returned([oid |-> OID_PE_ACME,
              critical |-> TRUE,
              content |-> construct_der(write_bytes(sha_digest))])

new_acme_identifier(sha_digest) ==
    IF Len(sha_digest) # 32
    THEN Panic
    ELSE Returned([oid |-> OID_PE_ACME,
                   critical |-> TRUE,
                   content |-> construct_der(write_bytes(sha_digest))])

from_oid_content(oid, content) ==
    [oid |-> oid, critical |-> FALSE, content |-> content]

set_criticality(extension, criticality) ==
    [extension EXCEPT !.critical = criticality]

(***************************************************************************)
(* dt_to_generalized (lib.rs 296-309).                                     *)
(***************************************************************************)
GeneralizedTime_from_datetime(date_time) == [datetime |-> date_time]

dt_to_generalized(dt) ==
    LET nanos == IF dt.nanosecond >= 1000000 THEN 1000000 ELSE 0
    IN  GeneralizedTime_from_datetime([dt EXCEPT !.nanosecond = nanos])

(***************************************************************************)
(* Certificate (lib.rs 56-60, 311-557).                                    *)
(***************************************************************************)
\* from_params with a fault: a key pair is generated even when the params hold one
from_params_AlwaysGenerates(p, fresh) ==
    IF IsSome(generate(p.alg, fresh))
    THEN Returned([params |-> [p EXCEPT !.key_pair = None],
                   key_pair |-> Unwrap(generate(p.alg, fresh))])
    ELSE Panic

\* from_params: the key pair of the params is taken if there is one,
\* otherwise one is generated for params.alg
from_params(p, fresh) ==
    IF IsSome(p.key_pair)
    THEN Returned([params |-> [p EXCEPT !.key_pair = None],
                   key_pair |-> Unwrap(p.key_pair)])
    ELSE IF IsSome(generate(p.alg, fresh))
    THEN Returned([params |-> p, key_pair |-> Unwrap(generate(p.alg, fresh))])
    ELSE Panic

\* write_name with a fault: the name written is always the certificate's own
write_name_OfSelf(self, ca) ==
    LET entries == self.params.distinguished_name.entries
    IN  write_sequence(<<
            write_set({write_sequence(<<to_oid(entries[i][1]),
                                        write_utf8_string(entries[i][2])>>)
                       : i \in 1..Len(entries)})
        >>)

\* write_name writes the distinguished name of `ca`: one SET holding one
\* SEQUENCE(type, value) per entry
write_name(self, ca) ==
    LET entries == ca.params.distinguished_name.entries
    IN  write_sequence(<<
            write_set({write_sequence(<<to_oid(entries[i][1]),
                                        write_utf8_string(entries[i][2])>>)
                       : i \in 1..Len(entries)})
        >>)

\* the Subject Alternative Name extension, written alike by write_cert and
\* write_request: every name a dNSName
write_subject_alt_names(self) ==
    LET sans == self.params.subject_alt_names
        bytes == construct_der(write_sequence(
                     [i \in 1..Len(sans) |->
                         write_tagged_implicit(2, write_utf8_string(sans[i]))]))
    IN  write_sequence(<<write_oid(OID_SUBJECT_ALT_NAME), write_bytes(bytes)>>)

write_subject_public_key_info(self) ==
    write_sequence(<<write_oids_sign_alg(self.params.alg),
                     write_bitvec(public_key(self.key_pair))>>)

\* write_request with a fault: the custom extensions are requested as well
write_request_WithCustomExtensions(self) ==
    LET entries == self.params.distinguished_name.entries
        custom == self.params.custom_extensions
    IN  write_sequence(<<
            write_u8(0),
            write_sequence([i \in 1..Len(entries) |->
                write_set({write_sequence(<<to_oid(entries[i][1]),
                                            write_utf8_string(entries[i][2])>>)})]),
            write_subject_public_key_info(self),
            write_tagged(0, write_sequence(<<
                write_oid(OID_PKCS_9_AT_EXTENSION_REQUEST),
                write_set({write_sequence(
                    <<write_subject_alt_names(self)>>
                    \o [i \in 1..Len(custom) |->
                           write_sequence(<<write_oid(custom[i].oid),
                                            write_bytes(custom[i].content)>>)])})
            >>))
        >>)

\* write_request: the certificationRequestInfo
write_request(self) ==
    LET entries == self.params.distinguished_name.entries
    IN  write_sequence(<<
            write_u8(0),
            write_sequence([i \in 1..Len(entries) |->
                write_set({write_sequence(<<to_oid(entries[i][1]),
                                            write_utf8_string(entries[i][2])>>)})]),
            write_subject_public_key_info(self),
            write_tagged(0, write_sequence(<<
                write_oid(OID_PKCS_9_AT_EXTENSION_REQUEST),
                write_set({write_sequence(<<write_subject_alt_names(self)>>)})
            >>))
        >>)

write_validity(self) ==
    write_sequence(<<write_generalized_time(dt_to_generalized(self.params.not_before)),
                     write_generalized_time(dt_to_generalized(self.params.not_after))>>)

write_subject_key_identifier(self) ==
    write_sequence(<<write_oid(OID_SUBJECT_KEY_IDENTIFIER),
                     write_bytes(digest_digest(self.params.alg.digest_alg,
                                               public_key(self.key_pair)))>>)

\* write_basic_constraints with a fault: the path length is never written
write_basic_constraints_NoPathLen(constraint) ==
    LET bytes == construct_der(write_sequence(<<write_bool(TRUE)>>))
    IN  write_sequence(<<write_oid(OID_BASIC_CONSTRAINTS), write_bytes(bytes)>>)

write_basic_constraints(constraint) ==
    LET bytes == construct_der(write_sequence(
                     <<write_bool(TRUE)>>
                     \o (IF constraint[1] = "Constrained"
                         THEN <<write_u8(constraint[2])>> ELSE <<>>)))
    IN  write_sequence(<<write_oid(OID_BASIC_CONSTRAINTS), write_bytes(bytes)>>)

\* write_custom_extension with a fault: the criticality field is always written
write_custom_extension_AlwaysFlag(extension) ==
    write_sequence(<<write_oid(extension.oid), write_bool(extension.critical),
                     write_bytes(extension.content)>>)

write_custom_extension(extension) ==
    write_sequence(<<write_oid(extension.oid)>>
                   \o (IF extension.critical THEN <<write_bool(TRUE)>> ELSE <<>>)
                   \o <<write_bytes(extension.content)>>)

\* write_extensions with a fault: no Subject Alternative Name extension for an
\* empty name list
write_extensions_SanOnlyIfNamed(self) ==
    write_tagged(3, write_sequence(
        (IF Len(self.params.subject_alt_names) > 0
         THEN <<write_subject_alt_names(self)>> ELSE <<>>)
        \o (IF self.params.is_ca[1] = "Ca"
            THEN <<write_subject_key_identifier(self),
                   write_basic_constraints(self.params.is_ca[2])>>
            ELSE <<>>)
        \o [i \in 1..Len(self.params.custom_extensions) |->
               write_custom_extension(self.params.custom_extensions[i])]))

write_extensions(self) ==
    write_tagged(3, write_sequence(
        <<write_subject_alt_names(self)>>
        \o (IF self.params.is_ca[1] = "Ca"
            THEN <<write_subject_key_identifier(self),
                   write_basic_constraints(self.params.is_ca[2])>>
            ELSE <<>>)
        \o [i \in 1..Len(self.params.custom_extensions) |->
               write_custom_extension(self.params.custom_extensions[i])]))

\* write_cert: the tbsCertificate
write_cert(self, ca) ==
    write_sequence(<<
        write_tagged(0, write_u8(2)),
        write_u64(IF IsSome(self.params.serial_number)
                  THEN Unwrap(self.params.serial_number) ELSE 42),
        write_alg_ident(self.params.alg),
        write_name(self, ca),
        write_validity(self),
        write_name(self, self),
        write_subject_public_key_info(self),
        write_extensions(self)
    >>)

serialize_der_with_signer(self, ca, nonce) ==
    LET tbs_cert_list_serialized == construct_der(write_cert(self, ca))
    IN  construct_der(write_sequence(<<
            write_der(tbs_cert_list_serialized),
            write_alg_ident(self.params.alg),
            sign(ca.key_pair, tbs_cert_list_serialized, nonce)
        >>))

serialize_der(self, nonce) == serialize_der_with_signer(self, self, nonce)

serialize_request_der(self, nonce) ==
    LET cert_data == construct_der(write_request(self))
    IN  construct_der(write_sequence(<<
            write_der(cert_data),
            write_alg_ident(self.params.alg),
            sign(self.key_pair, cert_data, nonce)
        >>))

serialize_private_key_der(self) == KeyPair_serialize_der(self.key_pair)

(***************************************************************************)
(* Inputs the client draws from.                                           *)
(***************************************************************************)
SeqsUpTo(S, n) == UNION {[1..k -> S] : k \in 0..n}

SanNames == {"a.example", "b.example"}
DnValues == {"Example CA"}
SerialNumbers == {Some(255)}
\* PKCS#8 bytes from outside the library: an RSA key (the library cannot
\* generate one) and bytes that hold no key
ExternalBytes == {Pkcs8Doc("RSA", 0), NotPkcs8}
\* digests of every length up to MaxDigestLen, the right one (32) included
MaxDigestLen == 33
Digests == {[i \in 1..n |-> 0] : n \in 0..MaxDigestLen}
CustomOids == {<<1, 2, 3, 4>>}
Contents == {construct_der(write_null)}
\* u8
PathLens == 0..255
PathLenSamples == {0, 200}
\* sub-second values around the thresholds of dt_to_generalized and of a
\* leap second, on the last second of a day
NanoSamples == {0, 1, 999999, 1000000, 1000001, 999999999, 1000000000, 1999999999}
TimeInputs ==
    {[ymd |-> <<2016, 12, 31>>, hms |-> <<23, 59, 59>>, nanosecond |-> n] : n \in NanoSamples}

(***************************************************************************)
(* The state machine.  `call` records the last call of a constructor that  *)
(* can fail or of a serializer: its name, the certificates it was made on, *)
(* its argument and what it returned (Panic if it did not return).         *)
(***************************************************************************)
Call(op, self, ca, arg, ret) ==
    [op |-> op, self |-> self, ca |-> ca, arg |-> arg, ret |-> ret]

Init ==
    /\ params = CertificateParams_default
    /\ ext = None
    /\ certs = <<>>
    /\ rng = 1
    /\ call = Call("none", 0, 0, <<>>, None)

\* the client goes on filling in parameters until it holds two certificates
Building == Len(certs) < Cardinality(CertSlots)

\* CertificateParams::new(subject_alt_names)
ParamsNew(sans) ==
    /\ Building
    /\ params' = CertificateParams_new(sans)
    /\ UNCHANGED <<ext, certs, rng, call>>

\* params.alg = alg
SetAlg(alg) ==
    /\ Building
    /\ params' = [params EXCEPT !.alg = alg]
    /\ UNCHANGED <<ext, certs, rng, call>>

\* params.not_before = dt
SetNotBefore(dt) ==
    /\ Building
    /\ params' = [params EXCEPT !.not_before = dt]
    /\ UNCHANGED <<ext, certs, rng, call>>

\* params.not_after = dt
SetNotAfter(dt) ==
    /\ Building
    /\ params' = [params EXCEPT !.not_after = dt]
    /\ UNCHANGED <<ext, certs, rng, call>>

\* params.serial_number = n
SetSerialNumber(n) ==
    /\ Building
    /\ params' = [params EXCEPT !.serial_number = n]
    /\ UNCHANGED <<ext, certs, rng, call>>

\* params.is_ca = is_ca
SetIsCa(is_ca) ==
    /\ Building
    /\ params' = [params EXCEPT !.is_ca = is_ca]
    /\ UNCHANGED <<ext, certs, rng, call>>

\* params.distinguished_name.push(ty, s)
PushDn(ty, s) ==
    /\ Building
    /\ \E slot \in 1..(Len(params.distinguished_name.entries) + 1) :
          params' = [params EXCEPT
                        !.distinguished_name = push(params.distinguished_name, ty, s, slot)]
    /\ UNCHANGED <<ext, certs, rng, call>>

\* CustomExtension::new_acme_identifier(sha_digest)
NewAcmeIdentifier(sha_digest) ==
    /\ Building
    /\ call' = Call("new_acme_identifier", 0, 0, sha_digest, new_acme_identifier(sha_digest))
    /\ ext' = IF IsSome(new_acme_identifier(sha_digest))
              THEN new_acme_identifier(sha_digest) ELSE ext
    /\ UNCHANGED <<params, certs, rng>>

\* CustomExtension::from_oid_content(oid, content)
FromOidContent(oid, content) ==
    /\ Building
    /\ ext' = Some(from_oid_content(oid, content))
    /\ UNCHANGED <<params, certs, rng, call>>

\* ext.set_criticality(criticality)
SetCriticality(criticality) ==
    /\ Building
    /\ IsSome(ext)
    /\ ext' = Some(set_criticality(Unwrap(ext), criticality))
    /\ UNCHANGED <<params, certs, rng, call>>

\* params.custom_extensions.push(ext): the extension moves into the params
PushCustomExtension ==
    /\ Building
    /\ IsSome(ext)
    /\ Len(params.custom_extensions) < MaxExts
    /\ params' = [params EXCEPT !.custom_extensions = Append(@, Unwrap(ext))]
    /\ ext' = None
    /\ UNCHANGED <<certs, rng, call>>

\* params.key_pair = Some(KeyPair::generate(alg))
Generate(alg) ==
    /\ Building
    /\ alg.sign_alg[1] = "Rsa" \/ rng <= MaxGen
    /\ call' = Call("KeyPair::generate", 0, 0, alg, generate(alg, rng))
    /\ IF IsSome(generate(alg, rng))
       THEN /\ params' = [params EXCEPT !.key_pair = generate(alg, rng)]
            /\ rng' = rng + 1
       ELSE UNCHANGED <<params, rng>>
    /\ UNCHANGED <<ext, certs>>

\* the PKCS#8 bytes the client holds: external ones, and those the last
\* call exported
HeldBytes ==
    ExternalBytes \cup
    (IF call.op \in {"KeyPair::serialize_der", "serialize_private_key_der"}
     THEN {Unwrap(call.ret)} ELSE {})

\* params.key_pair = Some(KeyPair::from(pkcs8))
Import(pkcs8) ==
    /\ Building
    /\ call' = Call("KeyPair::from", 0, 0, pkcs8, KeyPair_from(pkcs8))
    /\ params' = IF IsSome(KeyPair_from(pkcs8))
                 THEN [params EXCEPT !.key_pair = KeyPair_from(pkcs8)] ELSE params
    /\ UNCHANGED <<ext, certs, rng>>

\* params.key_pair.serialize_der()
KeySerializeDer ==
    /\ Building
    /\ IsSome(params.key_pair)
    /\ call' = Call("KeyPair::serialize_der", 0, 0, Unwrap(params.key_pair),
                    Returned(KeyPair_serialize_der(Unwrap(params.key_pair))))
    /\ UNCHANGED <<params, ext, certs, rng>>

\* Certificate::from_params(params): the params move into the call; the
\* client goes on with CertificateParams::default()
FromParams ==
    /\ Building
    /\ IsSome(params.key_pair) \/ params.alg.sign_alg[1] = "Rsa" \/ rng <= MaxGen
    /\ IF IsSome(from_params(params, rng))
       THEN /\ certs' = Append(certs, Unwrap(from_params(params, rng)))
            /\ rng' = IF IsSome(params.key_pair) THEN rng ELSE rng + 1
            /\ call' = Call("from_params", 0, 0, params, Returned(Len(certs) + 1))
       ELSE /\ UNCHANGED <<certs, rng>>
            /\ call' = Call("from_params", 0, 0, params, Panic)
    /\ params' = CertificateParams_default
    /\ UNCHANGED ext

\* certs[i].serialize_der()
SerializeDer(i, nonce) ==
    /\ call' = Call("serialize_der", i, i, <<>>, Returned(serialize_der(certs[i], nonce)))
    /\ UNCHANGED <<params, ext, certs, rng>>

\* certs[i].serialize_der_with_signer(&certs[j])
SerializeDerWithSigner(i, j, nonce) ==
    /\ call' = Call("serialize_der_with_signer", i, j, <<>>,
                    Returned(serialize_der_with_signer(certs[i], certs[j], nonce)))
    /\ UNCHANGED <<params, ext, certs, rng>>

\* certs[i].serialize_request_der()
SerializeRequestDer(i, nonce) ==
    /\ call' = Call("serialize_request_der", i, i, <<>>,
                    Returned(serialize_request_der(certs[i], nonce)))
    /\ UNCHANGED <<params, ext, certs, rng>>

\* certs[i].serialize_private_key_der()
SerializePrivateKeyDer(i) ==
    /\ call' = Call("serialize_private_key_der", i, i, <<>>,
                    Returned(serialize_private_key_der(certs[i])))
    /\ UNCHANGED <<params, ext, certs, rng>>

Certs == 1..Len(certs)

\* every serializer, on every certificate held
Serialize ==
    \/ \E i \in Certs, n \in Nonces : SerializeDer(i, n)
    \/ \E i \in Certs, j \in Certs, n \in Nonces : SerializeDerWithSigner(i, j, n)
    \/ \E i \in Certs, n \in Nonces : SerializeRequestDer(i, n)
    \/ \E i \in Certs : SerializePrivateKeyDer(i)

(***************************************************************************)
(* Spec: keys and signing.  The client chooses algorithms, generates,      *)
(* imports and exports key pairs, constructs two certificates and          *)
(* serializes them, each signed by itself or by the other.                 *)
(***************************************************************************)
Next ==
    \/ \E alg \in Algorithms : SetAlg(alg)
    \/ \E alg \in Algorithms : Generate(alg)
    \/ \E pkcs8 \in HeldBytes : Import(pkcs8)
    \/ KeySerializeDer
    \/ FromParams
    \/ Serialize

Spec == Init /\ [][Next]_vars

(***************************************************************************)
(* Reading a certificate back, as a conformant X.509 decoder does.         *)
(***************************************************************************)
Outer(der) == der.der
TbsOf(der) == Outer(der).val[1]
DeclaredAlgOf(der) == Outer(der).val[2]
SignatureOf(der) == Outer(der).val[3].val
TbsSerial(tbs) == tbs.val[2]
TbsSignatureAlg(tbs) == tbs.val[3]
TbsIssuer(tbs) == tbs.val[4]
TbsValidity(tbs) == tbs.val[5]
TbsSubject(tbs) == tbs.val[6]
TbsSpki(tbs) == tbs.val[7]
TbsExtensions(tbs) == tbs.val[8].val[1].val
SpkiOids(spki) ==
    LET a == spki.val[1].val
    IN  [i \in {k \in 1..Len(a) : a[k].tag = "OBJECT IDENTIFIER"} |-> a[i].val]
SpkiKey(spki) == spki.val[2].val

\* what a verifier supports (RFC 4055, RFC 5758, RFC 8410): the signature
\* algorithm identifier, the subjectPublicKeyInfo algorithm that goes with
\* it, the kind of key that parses under it, the scheme that checks it
VerificationAlgorithms ==
    {[sig_oid |-> <<1, 2, 840, 113549, 1, 1, 11>>,
      spki_oids |-> << <<1, 2, 840, 113549, 1, 1, 1>> >>,
      key |-> "RSA", scheme |-> "RSA_PKCS1_SHA256"],
     [sig_oid |-> <<1, 2, 840, 10045, 4, 3, 2>>,
      spki_oids |-> << <<1, 2, 840, 10045, 2, 1>>, <<1, 2, 840, 10045, 3, 1, 7>> >>,
      key |-> "P-256", scheme |-> "ECDSA_P256_SHA256_ASN1_SIGNING"],
     [sig_oid |-> <<1, 2, 840, 10045, 4, 3, 3>>,
      spki_oids |-> << <<1, 2, 840, 10045, 2, 1>>, <<1, 3, 132, 0, 34>> >>,
      key |-> "P-384", scheme |-> "ECDSA_P384_SHA384_ASN1_SIGNING"],
     [sig_oid |-> <<1, 3, 101, 112>>,
      spki_oids |-> << <<1, 3, 101, 112>> >>,
      key |-> "Ed25519", scheme |-> "ED25519"]}

\* the signature verifies over msg with the public key, under the
\* signature algorithm that the identifier alg_ident declares
VerifiesWithKey(alg_ident, key, msg, signature) ==
    \E v \in VerificationAlgorithms :
        /\ alg_ident.val[1].val = v.sig_oid
        /\ key.public = v.key
        /\ signature.scheme = v.scheme
        /\ signature.key = key
        /\ signature.msg = msg

\* the same with the key of a subjectPublicKeyInfo, whose algorithm has to
\* be the one the declared signature algorithm goes with
VerifiesWithSpki(alg_ident, spki, msg, signature) ==
    /\ VerifiesWithKey(alg_ident, SpkiKey(spki), msg, signature)
    /\ \E v \in VerificationAlgorithms :
          alg_ident.val[1].val = v.sig_oid /\ SpkiOids(spki) = v.spki_oids

\* the signature is one the key's own scheme accepts for msg
VerifiesRaw(key, msg, signature) ==
    /\ signature.key = key
    /\ signature.msg = msg
    /\ \E v \in VerificationAlgorithms : key.public = v.key /\ signature.scheme = v.scheme

Out == Unwrap(call.ret)

(***************************************************************************)
(* C1: the signature of every serialize_der output verifies over the       *)
(* encoded tbsCertificate with the public key of the certificate's own     *)
(* subjectPublicKeyInfo, under the signature algorithm the certificate     *)
(* declares -- whatever the algorithm, key generated or supplied.          *)
(***************************************************************************)
C1_SelfSignedVerifies ==
    call.op = "serialize_der" =>
        VerifiesWithSpki(DeclaredAlgOf(Out), TbsSpki(TbsOf(Out)),
                         construct_der(TbsOf(Out)), SignatureOf(Out))

(***************************************************************************)
(* C2: for ca distinct from leaf, the signature of                         *)
(* leaf.serialize_der_with_signer(ca) verifies over the encoded            *)
(* tbsCertificate with the ca's public key under the signature algorithm   *)
(* the output declares, and does not verify with the leaf's public key.    *)
(***************************************************************************)
C2_CrossSignedVerifiesWithIssuer ==
    (call.op = "serialize_der_with_signer" /\ call.self # call.ca) =>
        /\ VerifiesWithKey(DeclaredAlgOf(Out), public_key(certs[call.ca].key_pair),
                           construct_der(TbsOf(Out)), SignatureOf(Out))
        /\ ~VerifiesWithKey(DeclaredAlgOf(Out), public_key(certs[call.self].key_pair),
                            construct_der(TbsOf(Out)), SignatureOf(Out))

(***************************************************************************)
(* C8: a key pair exports exactly the PKCS#8 bytes it was created from,    *)
(* and its signing handle is the key of those bytes;                       *)
(* importing the exported bytes yields a key pair of the same variant with *)
(* the same public key and the same export; and the signature of a         *)
(* certificate whose key was imported from another certificate's export    *)
(* verifies with that other certificate's public key.                      *)
(***************************************************************************)
KeysHeld ==
    (IF IsSome(params.key_pair) THEN {Unwrap(params.key_pair)} ELSE {})
    \cup {certs[i].key_pair : i \in Certs}

\* the key is of the kind the certificate's algorithm signs with
KeyFitsAlg(cert) ==
    \E v \in VerificationAlgorithms :
        v.sig_oid = cert.params.alg.oid_components /\ v.key = cert.key_pair.kp.kind

\* a key pair whose signing handle is the key of the PKCS#8 bytes it holds
CompleteKeyPair(k) ==
    /\ k.variant \in {"EcKp", "EdKp", "Rsa"}
    /\ k.serialized.format = "PKCS8"
    /\ k.kp.kind = k.serialized.kind
    /\ k.kp.material = k.serialized.material

C8_ExportIsOriginalBytes ==
    /\ (call.op = "KeyPair::from" /\ IsSome(call.ret)) =>
           KeyPair_serialize_der(Out) = call.arg
    /\ \A k \in KeysHeld : CompleteKeyPair(k)
    /\ \A k \in KeysHeld :
           LET again == KeyPair_from(KeyPair_serialize_der(k))
           IN  /\ IsSome(again)
               /\ Unwrap(again).variant = k.variant
               /\ public_key(Unwrap(again)) = public_key(k)
               /\ KeyPair_serialize_der(Unwrap(again)) = KeyPair_serialize_der(k)
    /\ call.op = "serialize_der" =>
           \A i \in Certs :
               KeyPair_serialize_der(certs[i].key_pair)
                   = KeyPair_serialize_der(certs[call.self].key_pair)
               => /\ VerifiesRaw(public_key(certs[i].key_pair),
                                 construct_der(TbsOf(Out)), SignatureOf(Out))
                  /\ KeyFitsAlg(certs[call.self]) =>
                         VerifiesWithKey(DeclaredAlgOf(Out), public_key(certs[i].key_pair),
                                         construct_der(TbsOf(Out)), SignatureOf(Out))

\* the second certificate is signed with a generated key that came back in
\* through its PKCS#8 export, and the first holds the original
C8_Witness ==
    /\ Len(certs) = 2
    /\ call.op = "serialize_der"
    /\ call.self = 2
    /\ certs[1].key_pair.kp.material >= 1
    /\ certs[2].key_pair.kp.kind = "P-384"
    /\ KeyPair_serialize_der(certs[2].key_pair) = KeyPair_serialize_der(certs[1].key_pair)

(***************************************************************************)
(* C9: from_params fixes the key pair once: a supplied key is the one      *)
(* used and nothing is generated (RSA included); otherwise a fresh key     *)
(* pair of the algorithm's family is generated.  No later call changes a   *)
(* certificate's key pair or parameters, and every output of a certificate *)
(* carries and is signed with that same key.                               *)
(***************************************************************************)
FamilyMatches(key_pair, alg) ==
    \/ alg.sign_alg[1] = "EcDsa" /\ key_pair.variant = "EcKp"
                                 /\ key_pair.kp.scheme = alg.sign_alg[2]
    \/ alg.sign_alg[1] = "EdDsa" /\ key_pair.variant = "EdKp"
    \/ alg.sign_alg[1] = "Rsa" /\ key_pair.variant = "Rsa"

OutputsUseOwnKey ==
    /\ call.op \in {"serialize_der", "serialize_der_with_signer"} =>
           /\ SpkiKey(TbsSpki(TbsOf(Out))) = public_key(certs[call.self].key_pair)
           /\ SignatureOf(Out).key = public_key(certs[call.ca].key_pair)
    /\ call.op = "serialize_request_der" =>
           /\ SpkiKey(Outer(Out).val[1].val[3]) = public_key(certs[call.self].key_pair)
           /\ SignatureOf(Out).key = public_key(certs[call.self].key_pair)
    /\ call.op = "serialize_private_key_der" =>
           Out = certs[call.self].key_pair.serialized

C9_Step ==
    /\ \A i \in Certs : i \in 1..Len(certs') /\ certs'[i] = certs[i]
    /\ Len(certs') # Len(certs) =>
           LET new == certs'[Len(certs')]
           IN  /\ Len(certs') = Len(certs) + 1
               /\ new.params = [params EXCEPT !.key_pair = None]
               /\ IsSome(params.key_pair) =>
                      /\ new.key_pair = Unwrap(params.key_pair)
                      /\ rng' = rng
               /\ ~IsSome(params.key_pair) =>
                      /\ FamilyMatches(new.key_pair, params.alg)
                      /\ \A k \in KeysHeld : k.kp.material # new.key_pair.kp.material
                      /\ rng' = rng + 1
    /\ OutputsUseOwnKey'

C9_KeyPairFixedAtConstruction == [][C9_Step]_vars

\* one certificate was given an RSA key under the RSA algorithm, the other
\* generated its own, and both have been serialized
C9_Witness ==
    /\ Len(certs) = 2
    /\ certs[1].key_pair.variant = "Rsa"
    /\ certs[1].params.alg = PKCS_RSA_SHA256
    /\ certs[2].key_pair.kp.material = 1
    /\ certs[2].key_pair.variant = "EdKp"
    /\ call.op = "serialize_der_with_signer"
    /\ call.self = 1
    /\ call.ca = 2

(***************************************************************************)
(* Reading names, integers and extensions back.                            *)
(***************************************************************************)
RECURSIVE FromBase256(_)
FromBase256(d) ==
    IF Len(d) = 0 THEN 0 ELSE FromBase256(SubSeq(d, 1, Len(d) - 1)) * 256 + d[Len(d)]

RECURSIVE Pow256(_)
Pow256(n) == IF n = 0 THEN 1 ELSE 256 * Pow256(n - 1)

\* the value of an INTEGER's contents octets (two's complement, big-endian)
DecodeInteger(contents) ==
    IF contents[1] >= 128
    THEN FromBase256(contents) - Pow256(Len(contents))
    ELSE FromBase256(contents)

\* the (type, value) pairs of a Name, whatever SETs they are spread over
NameAttributes(name) ==
    {<<a.val[1].val, a.val[2].val>> :
        a \in UNION {name.val[i].val : i \in 1..Len(name.val)}}

\* the attribute type identifiers of RFC 5280
AttributeOid(ty) ==
    CASE ty = "CountryName" -> <<2, 5, 4, 6>>
      [] ty = "OrganizationName" -> <<2, 5, 4, 10>>
      [] ty = "CommonName" -> <<2, 5, 4, 3>>

DnAttributes(dn) ==
    {<<AttributeOid(dn.entries[i][1]), dn.entries[i][2]>> : i \in 1..Len(dn.entries)}

ExtnId(extension) == extension.val[1].val
ExtnValue(extension) == extension.val[Len(extension.val)].val
ExtnIds(extensions) == [i \in 1..Len(extensions) |-> ExtnId(extensions[i])]

\* the extension identifiers RFC 5280 expects of these parameters, in the
\* order of the specification
ExpectedExtnIds(p) ==
    << <<2, 5, 29, 17>> >>
    \o (IF p.is_ca[1] = "Ca" THEN << <<2, 5, 29, 14>>, <<2, 5, 29, 19>> >> ELSE <<>>)
    \o [i \in 1..Len(p.custom_extensions) |-> p.custom_extensions[i].oid]

(***************************************************************************)
(* SpecIssuer: names and issuers.  Two certificates that differ in         *)
(* distinguished name, serial number, algorithm, validity and CA mode,     *)
(* each serialized signed by itself and by the other.                      *)
(***************************************************************************)
NextIssuer ==
    \/ \E s \in DnValues : PushDn("OrganizationName", s)
    \/ \E n \in SerialNumbers : SetSerialNumber(n)
    \/ SetAlg(PKCS_ED25519)
    \/ SetIsCa(Ca(Unconstrained))
    \/ SetNotAfter(date_time_ymd(2030, 1, 1))
    \/ FromParams
    \/ Serialize

SpecIssuer == Init /\ [][NextIssuer]_vars

(***************************************************************************)
(* C7: in leaf.serialize_der_with_signer(ca) the issuer Name is ca's       *)
(* distinguished name; the subject Name, the subjectPublicKeyInfo, the     *)
(* serial number, the validity and the extensions are the leaf's; and      *)
(* serialize_der() is serialize_der_with_signer(self), issuer = subject.   *)
(***************************************************************************)
C7_IssuerFromCaRestFromLeaf ==
    call.op \in {"serialize_der", "serialize_der_with_signer"} =>
        LET leaf == certs[call.self]
            ca == certs[call.ca]
            tbs == TbsOf(Out)
        IN  /\ NameAttributes(TbsIssuer(tbs)) = DnAttributes(ca.params.distinguished_name)
            /\ NameAttributes(TbsSubject(tbs)) = DnAttributes(leaf.params.distinguished_name)
            /\ SpkiOids(TbsSpki(tbs)) = leaf.params.alg.oids_sign_alg
            /\ SpkiKey(TbsSpki(tbs)) = public_key(leaf.key_pair)
            /\ DecodeInteger(TbsSerial(tbs).val) =
                   (IF IsSome(leaf.params.serial_number)
                    THEN Unwrap(leaf.params.serial_number) ELSE 42)
            /\ TbsValidity(tbs).val[1].val.ymd = leaf.params.not_before.ymd
            /\ TbsValidity(tbs).val[1].val.hms = leaf.params.not_before.hms
            /\ TbsValidity(tbs).val[2].val.ymd = leaf.params.not_after.ymd
            /\ TbsValidity(tbs).val[2].val.hms = leaf.params.not_after.hms
            /\ ExtnIds(TbsExtensions(tbs)) = ExpectedExtnIds(leaf.params)
            /\ \A i \in 1..Len(TbsExtensions(tbs)) :
                   ExtnId(TbsExtensions(tbs)[i]) = <<2, 5, 29, 14>> =>
                       ExtnValue(TbsExtensions(tbs)[i]).of = public_key(leaf.key_pair)
            /\ call.op = "serialize_der" =>
                   /\ call.ca = call.self
                   /\ TbsIssuer(tbs) = TbsSubject(tbs)
                   /\ \E n \in Nonces : Out = serialize_der_with_signer(leaf, leaf, n)

\* a leaf signed by a ca that differs from it in every parameter
C7_Witness ==
    /\ call.op = "serialize_der_with_signer"
    /\ call.self = 1
    /\ call.ca = 2
    /\ Cardinality(DnAttributes(certs[2].params.distinguished_name)) = 2
    /\ DnAttributes(certs[1].params.distinguished_name)
           = {<<AttributeOid("CommonName"), "rcgen self signed cert">>}
    /\ certs[1].params.serial_number = Some(255)
    /\ certs[2].params.serial_number = None
    /\ certs[1].params.alg # certs[2].params.alg
    /\ certs[1].params.is_ca # certs[2].params.is_ca
    /\ certs[1].params.not_after # certs[2].params.not_after

(***************************************************************************)
(* SpecExt: extensions.  The client builds custom extensions, sets their   *)
(* criticality, moves them into the parameters, chooses the subject        *)
(* alternative names and the CA mode, constructs one certificate and       *)
(* serializes it.                                                          *)
(***************************************************************************)
First == certs = <<>>

IsCaSamples ==
    {SelfSignedOnly, Ca(Unconstrained)} \cup {Ca(Constrained(k)) : k \in PathLenSamples}

NextExt ==
    \/ First /\ \E sans \in SeqsUpTo(SanNames, MaxSans) : ParamsNew(sans)
    \/ First /\ \E is_ca \in IsCaSamples : SetIsCa(is_ca)
    \/ First /\ NewAcmeIdentifier([i \in 1..32 |-> 0])
    \/ First /\ \E oid \in CustomOids, content \in Contents : FromOidContent(oid, content)
    \/ First /\ \E criticality \in BOOLEAN : SetCriticality(criticality)
    \/ First /\ PushCustomExtension
    \/ First /\ FromParams
    \/ \E i \in Certs, n \in Nonces : SerializeDer(i, n)

SpecExt == Init /\ [][NextExt]_vars

SanExtension(extensions) == extensions[1]
GeneralNames(extension) == ExtnValue(extension).der.val

(***************************************************************************)
(* C3: the extensions of a serialized certificate are exactly: one Subject *)
(* Alternative Name extension (also for an empty name list) holding the N  *)
(* names as dNSName entries in list order; then, iff is_ca is Ca(..),      *)
(* Subject Key Identifier and Basic Constraints; then every custom         *)
(* extension once, in the order of custom_extensions.                      *)
(***************************************************************************)
C3_ExtensionsListExact ==
    call.op = "serialize_der" =>
        LET p == certs[call.self].params
            extensions == TbsExtensions(TbsOf(Out))
            names == GeneralNames(SanExtension(extensions))
            offset == Len(extensions) - Len(p.custom_extensions)
        IN  /\ ExtnIds(extensions) = ExpectedExtnIds(p)
            /\ Len(names) = Len(p.subject_alt_names)
            /\ \A i \in 1..Len(names) :
                   /\ names[i].tag = "CONTEXT"
                   /\ names[i].ctx = 2
                   /\ names[i].val = p.subject_alt_names[i]
            /\ \A i \in 1..Len(p.custom_extensions) :
                   ExtnValue(extensions[offset + i]) = p.custom_extensions[i].content

\* two names, a CA, and two different custom extensions
C3_Witness ==
    /\ call.op = "serialize_der"
    /\ certs[1].params.subject_alt_names = <<"b.example", "a.example">>
    /\ certs[1].params.is_ca = Ca(Constrained(200))
    /\ Len(certs[1].params.custom_extensions) = 2
    /\ certs[1].params.custom_extensions[1].oid = OID_PE_ACME
    /\ certs[1].params.custom_extensions[2].oid # OID_PE_ACME

(***************************************************************************)
(* C5: a custom extension is encoded with a BOOLEAN TRUE criticality field *)
(* iff its critical flag, as the constructors and set_criticality left it, *)
(* is true; a criticality field FALSE is never written.                    *)
(***************************************************************************)
Booleans(extension) ==
    {i \in 1..Len(extension.val) : extension.val[i].tag = "BOOLEAN"}

C5_CriticalityFieldIffCritical ==
    call.op = "serialize_der" =>
        LET p == certs[call.self].params
            extensions == TbsExtensions(TbsOf(Out))
            offset == Len(extensions) - Len(p.custom_extensions)
        IN  \A i \in 1..Len(p.custom_extensions) :
                LET e == extensions[offset + i]
                IN  /\ p.custom_extensions[i].critical <=>
                           (Booleans(e) = {2} /\ e.val[2].val = TRUE)
                    /\ ~p.custom_extensions[i].critical => Booleans(e) = {}
                    /\ \A b \in Booleans(e) : e.val[b].val = TRUE

\* an ACME extension made non-critical and an extension from_oid_content
\* made critical, both by set_criticality
C5_Witness ==
    /\ call.op = "serialize_der"
    /\ Len(certs[1].params.custom_extensions) = 2
    /\ certs[1].params.custom_extensions[1].oid = OID_PE_ACME
    /\ ~certs[1].params.custom_extensions[1].critical
    /\ certs[1].params.custom_extensions[2].oid # OID_PE_ACME
    /\ certs[1].params.custom_extensions[2].critical

(***************************************************************************)
(* SpecCa: the CA mode.  One certificate of every is_ca value, every path  *)
(* length of a u8 included, serialized.                                    *)
(***************************************************************************)
NextCa ==
    \/ First /\ \E k \in PathLens : SetIsCa(Ca(Constrained(k)))
    \/ First /\ SetIsCa(Ca(Unconstrained))
    \/ First /\ SetIsCa(SelfSignedOnly)
    \/ First /\ FromParams
    \/ \E i \in Certs, n \in Nonces : SerializeDer(i, n)

SpecCa == Init /\ [][NextCa]_vars

WithId(extensions, id) ==
    {i \in 1..Len(extensions) : ExtnId(extensions[i]) = id}

(***************************************************************************)
(* C4: Ca(Constrained(k)), for every k in 0..255, gives a Basic            *)
(* Constraints value with cA = true and pathLenConstraint = k;             *)
(* Ca(Unconstrained) gives cA = true and no pathLenConstraint;             *)
(* SelfSignedOnly gives neither Basic Constraints nor Subject Key          *)
(* Identifier.                                                             *)
(***************************************************************************)
C4_BasicConstraintsOfIsCa ==
    call.op = "serialize_der" =>
        LET is_ca == certs[call.self].params.is_ca
            extensions == TbsExtensions(TbsOf(Out))
            bc == WithId(extensions, <<2, 5, 29, 19>>)
            ski == WithId(extensions, <<2, 5, 29, 14>>)
        IN  IF is_ca[1] = "Ca"
            THEN /\ Cardinality(bc) = 1
                 /\ Cardinality(ski) = 1
                 /\ \A i \in bc :
                        LET fields == ExtnValue(extensions[i]).der.val
                        IN  /\ fields[1] = [tag |-> "BOOLEAN", val |-> TRUE]
                            /\ IF is_ca[2][1] = "Constrained"
                               THEN /\ Len(fields) = 2
                                    /\ fields[2].tag = "INTEGER"
                                    /\ DecodeInteger(fields[2].val) = is_ca[2][2]
                               ELSE Len(fields) = 1
            ELSE bc = {} /\ ski = {}

\* a path length whose INTEGER needs a leading zero octet
C4_Witness ==
    /\ call.op = "serialize_der"
    /\ certs[1].params.is_ca = Ca(Constrained(255))

(***************************************************************************)
(* SpecTime: the validity.  One certificate whose not_before and not_after *)
(* carry every sampled sub-second value, serialized.                       *)
(***************************************************************************)
NextTime ==
    \/ First /\ \E dt \in TimeInputs : SetNotBefore(dt)
    \/ First /\ \E dt \in TimeInputs : SetNotAfter(dt)
    \/ First /\ FromParams
    \/ \E i \in Certs, n \in Nonces : SerializeDer(i, n)

SpecTime == Init /\ [][NextTime]_vars

(***************************************************************************)
(* C6: for every sub-second value of not_before and not_after, the         *)
(* GeneralizedTime written into the validity has no fractional seconds.    *)
(***************************************************************************)
C6_NoFractionalSeconds ==
    call.op = "serialize_der" =>
        \A i \in 1..2 : TbsValidity(TbsOf(Out)).val[i].val.fraction = 0

(***************************************************************************)
(* SpecFatal: the calls that can fail.  The client generates and imports   *)
(* keys under every algorithm, builds ACME extensions from digests of      *)
(* every length, and constructs one certificate.                           *)
(***************************************************************************)
NextFatal ==
    \/ First /\ \E alg \in Algorithms : SetAlg(alg)
    \/ First /\ \E alg \in Algorithms : Generate(alg)
    \/ First /\ \E pkcs8 \in HeldBytes : Import(pkcs8)
    \/ First /\ KeySerializeDer
    \/ First /\ \E sha_digest \in Digests : NewAcmeIdentifier(sha_digest)
    \/ First /\ PushCustomExtension
    \/ First /\ FromParams
    \/ \E i \in Certs, n \in Nonces : SerializeDer(i, n)

SpecFatal == Init /\ [][NextFatal]_vars

(***************************************************************************)
(* C10: KeyPair::generate for RSA (and from_params for RSA without a key), *)
(* KeyPair::from on bytes that hold none of the four kinds of key, and     *)
(* new_acme_identifier on a digest of a length other than 32 return        *)
(* nothing and leave nothing behind; in every other case the call returns  *)
(* a complete value.                                                       *)
(***************************************************************************)
C10_Step ==
    LET c == call'
    IN  /\ c.op = "KeyPair::generate" =>
               /\ (c.ret = Panic) <=> (c.arg = PKCS_RSA_SHA256)
               /\ IsSome(c.ret) => CompleteKeyPair(Unwrap(c.ret))
        /\ c.op = "from_params" =>
               /\ (c.ret = Panic) <=>
                      (c.arg.key_pair = None /\ c.arg.alg = PKCS_RSA_SHA256)
               /\ IsSome(c.ret) =>
                      /\ Unwrap(c.ret) \in 1..Len(certs')
                      /\ CompleteKeyPair(certs'[Unwrap(c.ret)].key_pair)
                      /\ certs'[Unwrap(c.ret)].params = [c.arg EXCEPT !.key_pair = None]
        /\ c.op = "KeyPair::from" =>
               /\ (c.ret = Panic) <=>
                      ~(c.arg.format = "PKCS8"
                        /\ c.arg.kind \in {"Ed25519", "P-256", "P-384", "RSA"})
               /\ IsSome(c.ret) => CompleteKeyPair(Unwrap(c.ret))
        /\ c.op = "new_acme_identifier" =>
               /\ (c.ret = Panic) <=> (Len(c.arg) # 32)
               /\ IsSome(c.ret) =>
                      /\ Unwrap(c.ret).oid = <<1, 3, 6, 1, 5, 5, 7, 1, 31>>
                      /\ Unwrap(c.ret).critical
                      /\ Unwrap(c.ret).content.der = [tag |-> "OCTET STRING", val |-> c.arg]
                      /\ c # call => ext' = c.ret
        /\ c.op \in {"serialize_der", "KeyPair::serialize_der"} => IsSome(c.ret)
        /\ (c # call /\ c.ret = Panic) =>
               /\ certs' = certs
               /\ ext' = ext
               /\ rng' = rng
               /\ c.op # "from_params" => params' = params

C10_FatalBeforeAnyResult == [][C10_Step]_vars

\* from_params has just failed on RSA parameters without a key, after an
\* ACME extension was built and moved into them
C10_Witness ==
    /\ call.op = "from_params"
    /\ call.ret = Panic
    /\ call.arg.alg = PKCS_RSA_SHA256
    /\ Len(call.arg.custom_extensions) = 1
    /\ certs = <<>>

(***************************************************************************)
(* SpecDn: distinguished names.  The client starts from the default        *)
(* parameters or from CertificateParams::new, may replace the name by an   *)
(* empty one, and pushes values of every attribute type in any order.      *)
(***************************************************************************)
\* params.distinguished_name = DistinguishedName::new()
DnNew ==
    /\ Building
    /\ params' = [params EXCEPT !.distinguished_name = DistinguishedName_new]
    /\ UNCHANGED <<ext, certs, rng, call>>

DnStrings == DnValues \cup {"Example Org"}

NextDn ==
    \/ \E sans \in SeqsUpTo(SanNames, 1) : ParamsNew(sans)
    \/ DnNew
    \/ \E ty \in DnTypes, s \in DnStrings : PushDn(ty, s)

SpecDn == Init /\ [][NextDn]_vars

\* the places of a name's entries of type ty, and the values held there
PlacesOf(dn, ty) == {i \in 1..Len(dn.entries) : dn.entries[i][1] = ty}
ValuesOf(dn, ty) == {dn.entries[i][2] : i \in PlacesOf(dn, ty)}

\* exactly one entry, of type CommonName
OnlyCommonName(dn) ==
    /\ Len(dn.entries) = 1
    /\ dn.entries[1][1] = "CommonName"

(***************************************************************************)
(* C11: a distinguished name holds at most one value per attribute type;   *)
(* a push of (ty, s) leaves exactly the value s for ty and every other     *)
(* type as it was; the distinguished name of the default parameters, and   *)
(* of CertificateParams::new, holds exactly one entry, of type CommonName. *)
(***************************************************************************)
C11_Step ==
    /\ \A ty \in DnTypes :
           Cardinality(PlacesOf(params'.distinguished_name, ty)) <= 1
    /\ \A ty \in DnTypes, s \in DnStrings :
           PushDn(ty, s) =>
               /\ Cardinality(PlacesOf(params'.distinguished_name, ty)) = 1
               /\ ValuesOf(params'.distinguished_name, ty) = {s}
               /\ \A other \in DnTypes \ {ty} :
                      /\ Cardinality(PlacesOf(params'.distinguished_name, other))
                             = Cardinality(PlacesOf(params.distinguished_name, other))
                      /\ ValuesOf(params'.distinguished_name, other)
                             = ValuesOf(params.distinguished_name, other)
    /\ (\E sans \in SeqsUpTo(SanNames, 1) : ParamsNew(sans)) =>
           OnlyCommonName(params'.distinguished_name)

C11_OneValuePerTypeLastPushWins ==
    /\ OnlyCommonName(CertificateParams_default.distinguished_name)
    /\ OnlyCommonName(params.distinguished_name)
    /\ [][C11_Step]_vars

\* every type has been pushed, CommonName over the default's value and
\* OrganizationName over an earlier push
C11_Witness ==
    /\ Len(params.distinguished_name.entries) = 3
    /\ ValuesOf(params.distinguished_name, "CommonName") = {"Example CA"}
    /\ ValuesOf(params.distinguished_name, "OrganizationName") = {"Example Org"}
    /\ ValuesOf(params.distinguished_name, "CountryName") = {"Example CA"}
    /\ params.subject_alt_names # <<>>

(***************************************************************************)
(* SpecName: the encoding of names.  Two certificates with distinguished   *)
(* names of zero to three entries, each serialized as a certificate signed *)
(* by itself and by the other, and as a certificate signing request.       *)
(***************************************************************************)
NextName ==
    \/ DnNew
    \/ \E ty \in DnTypes, s \in DnValues : PushDn(ty, s)
    \/ FromParams
    \/ \E i \in Certs, j \in Certs, n \in Nonces : SerializeDerWithSigner(i, j, n)
    \/ \E i \in Certs, n \in Nonces : SerializeRequestDer(i, n)

SpecName == Init /\ [][NextName]_vars

\* reading a certificate signing request back (RFC 2986)
CsrInfoOf(der) == Outer(der).val[1]
CsrVersion(info) == info.val[1]
CsrSubject(info) == info.val[2]
CsrSpki(info) == info.val[3]
CsrAttributes(info) == info.val[4]

\* one AttributeTypeAndValue: SEQUENCE(attribute type OID, UTF8String value)
IsAttributeTypeAndValue(a) ==
    /\ a.tag = "SEQUENCE"
    /\ Len(a.val) = 2
    /\ a.val[1].tag = "OBJECT IDENTIFIER"
    /\ a.val[2].tag = "UTF8String"

\* a SEQUENCE of exactly one SET per entry of dn, each SET holding exactly
\* one SEQUENCE(attribute type OID, UTF8String value), the attributes being
\* those of dn
IsNameOf(name, dn) ==
    /\ name.tag = "SEQUENCE"
    /\ Len(name.val) = Len(dn.entries)
    /\ \A i \in 1..Len(name.val) :
           /\ name.val[i].tag = "SET"
           /\ Cardinality(name.val[i].val) = 1
           /\ \A a \in name.val[i].val : IsAttributeTypeAndValue(a)
    /\ NameAttributes(name) = DnAttributes(dn)

(***************************************************************************)
(* C12: the issuer Name and the subject Name of every certificate, and the *)
(* subject Name of every certificate signing request, are a SEQUENCE of    *)
(* exactly n SETs for a distinguished name of n entries, each SET holding  *)
(* exactly one SEQUENCE(attribute type OID, UTF8String value).             *)
(***************************************************************************)
C12_NameIsOneSetPerEntry ==
    /\ (call.op = "serialize_der_with_signer") =>
           /\ IsNameOf(TbsIssuer(TbsOf(Out)), certs[call.ca].params.distinguished_name)
           /\ IsNameOf(TbsSubject(TbsOf(Out)), certs[call.self].params.distinguished_name)
    /\ (call.op = "serialize_request_der") =>
           IsNameOf(CsrSubject(CsrInfoOf(Out)), certs[call.self].params.distinguished_name)

(***************************************************************************)
(* SpecCsr: certificate signing requests.  The client chooses alternative  *)
(* names, an organization, the CA mode and custom extensions for a first   *)
(* certificate, constructs it and a second one with the default            *)
(* parameters, and serializes the request of each.                         *)
(***************************************************************************)
NextCsr ==
    \/ First /\ \E sans \in SeqsUpTo(SanNames, MaxSans) : ParamsNew(sans)
    \/ First /\ \E s \in DnValues : PushDn("OrganizationName", s)
    \/ First /\ \E is_ca \in IsCaSamples : SetIsCa(is_ca)
    \/ First /\ \E oid \in CustomOids, content \in Contents : FromOidContent(oid, content)
    \/ First /\ PushCustomExtension
    \/ FromParams
    \/ \E i \in Certs, n \in Nonces : SerializeRequestDer(i, n)

SpecCsr == Init /\ [][NextCsr]_vars

\* the attribute of the request's attributes field, and the lists of
\* extensions its values request
CsrAttribute(info) == CsrAttributes(info).val[1]
ExtensionRequests(info) == {v.val : v \in CsrAttribute(info).val[2].val}

(***************************************************************************)
(* C13: the request serialize_request_der produces for a certificate has   *)
(* version 0, the certificate's own subject and public key, and one        *)
(* extensionRequest attribute requesting exactly one extension, Subject    *)
(* Alternative Name with the names in list order, whatever is_ca and       *)
(* custom_extensions are; its signature is over the encoded                *)
(* certificationRequestInfo, by the certificate's own key and by no other  *)
(* certificate's key.                                                      *)
(***************************************************************************)
C13_RequestIsOwnAndAsksSanOnly ==
    call.op = "serialize_request_der" =>
        LET self == certs[call.self]
            info == CsrInfoOf(Out)
        IN  /\ CsrVersion(info).tag = "INTEGER"
            /\ DecodeInteger(CsrVersion(info).val) = 0
            /\ IsNameOf(CsrSubject(info), self.params.distinguished_name)
            /\ SpkiKey(CsrSpki(info)) = public_key(self.key_pair)
            /\ CsrAttributes(info).tag = "CONTEXT"
            /\ CsrAttributes(info).ctx = 0
            /\ Len(CsrAttributes(info).val) = 1
            /\ CsrAttribute(info).val[1].val = <<1, 2, 840, 113549, 1, 9, 14>>
            /\ Cardinality(ExtensionRequests(info)) = 1
            /\ \A extensions \in ExtensionRequests(info) :
                   /\ ExtnIds(extensions) = << <<2, 5, 29, 17>> >>
                   /\ Len(GeneralNames(extensions[1])) = Len(self.params.subject_alt_names)
                   /\ \A i \in 1..Len(self.params.subject_alt_names) :
                          /\ GeneralNames(extensions[1])[i].tag = "CONTEXT"
                          /\ GeneralNames(extensions[1])[i].ctx = 2
                          /\ GeneralNames(extensions[1])[i].val
                                 = self.params.subject_alt_names[i]
            /\ VerifiesRaw(public_key(self.key_pair), construct_der(info),
                           SignatureOf(Out))
            /\ \A j \in Certs \ {call.self} :
                   ~VerifiesRaw(public_key(certs[j].key_pair), construct_der(info),
                                SignatureOf(Out))

\* the request of a CA certificate with two names and two custom
\* extensions, while a second certificate with another key is held
C13_Witness ==
    /\ call.op = "serialize_request_der"
    /\ call.self = 1
    /\ Len(certs) = 2
    /\ certs[1].params.is_ca = Ca(Constrained(200))
    /\ certs[1].params.subject_alt_names = <<"b.example", "a.example">>
    /\ Len(certs[1].params.custom_extensions) = 2
    /\ Len(certs[1].params.distinguished_name.entries) = 2

====
